---- MODULE Spec2Model ----
(***************************************************************************)
(* Model of the sample preprocessors (src/src/preprocessor.py) and of the  *)
(* trimmed squared loss (src/src/loss.py).                                  *)
(*                                                                          *)
(* Real numbers are modelled by integers and by fractions <<num, den>>:    *)
(* coordinates, kernel sizes, strides, matrix entries, weights and targets *)
(* are integers; the threshold and the contamination proportion are        *)
(* fractions; a mean, a loss and a gradient are kept as numerator and      *)
(* denominator, so that every division of the code is exact in the model.  *)
(***************************************************************************)
EXTENDS Integers, Sequences, FiniteSets, TLC

VARIABLES
    \* ---- KernelPreprocessor: the instance ----
    kernel_size,      \* self.kernel_size, <<kw, kh>>
    strides,          \* self.strides, <<sx, sy>>
    threshold,        \* self.threshold, a fraction <<num, den>>
    threshold_size,   \* self.threshold_size: <<>> when the attribute is absent, <<v>> when set
    \* ---- KernelPreprocessor.__call__: the locals of each call ----
    pc,               \* position of each call
    x, y,             \* the arguments of each call
    i,                \* index of the next sample of the loop of line 52
    kernels,          \* the dict kernels: (ix, iy) -> list of samples
    keys,             \* the keys of kernels in insertion order (the order of line 66)
    k,                \* index of the next key of the loop of line 66
    new_x, new_y,     \* the output lists, each entry a fraction <<sum, count>>
    \* ---- SquaredLoss ----
    lpc,                        \* position of the call of SquaredLoss
    contamination_proportion,   \* self.contamination_proportion, a fraction <<num, den>>
    X, w, yt,                   \* the arguments: rows of X, the weights, the targets
    kept_size, residuals, losses, kept_indices,
    loss_out,                   \* the returned pair, as numerators over kept_size
    \* ---- ClusteringPreprocessor ----
    cpc,              \* position of the call of ClusteringPreprocessor
    mode,             \* self.mode
    cx, cy,           \* the arguments
    labels_,          \* clustering.labels_
    index,            \* the positions np.where returns
    c_out             \* the returned pair of arrays

kvars == <<kernel_size, strides, threshold, threshold_size, pc, x, y, i,
           kernels, keys, k, new_x, new_y>>
lvars == <<lpc, contamination_proportion, X, w, yt, kept_size, residuals,
           losses, kept_indices, loss_out>>
cvars == <<cpc, mode, cx, cy, labels_, index, c_out>>
vars == <<kvars, lvars, cvars>>

----------------------------------------------------------------------------
(* Bounds of the model *)

\* the most samples of one call
MaxSamples == 2
\* x coordinates are 0..MaxCoordX
MaxCoordX == 2
\* y coordinates are 0..MaxCoordY
MaxCoordY == 1
\* the most rows of the design matrix
MaxRows == 3

\* pairs <<kernel_size, strides>>, strictly positive on both axes: exact
\* tilings, overlapping windows, windows with gaps, and axes that differ
KernelConfigs ==
    { <<(<<1, 1>>), (<<1, 1>>)>>, <<(<<2, 2>>), (<<2, 2>>)>>,
      <<(<<2, 2>>), (<<1, 1>>)>>, <<(<<1, 1>>), (<<2, 2>>)>>,
      <<(<<2, 1>>), (<<1, 2>>)>>, <<(<<1, 2>>), (<<2, 1>>)>> }
\* thresholds, as fractions
Thresholds == {<<0, 1>>, <<1, 2>>, <<1, 1>>}

Calls == {1, 2}

----------------------------------------------------------------------------
(* Arithmetic *)

\* math.ceil(a / b) for b > 0
Ceil(a, b) == -((-a) \div b)

\* int(a / b) for b > 0: truncation toward zero
Trunc(a, b) == IF a >= 0 THEN a \div b ELSE -((-a) \div b)

RECURSIVE SeqMin(_)
\* ndarray.min()
SeqMin(s) ==
    IF Len(s) = 1 THEN s[1]
    ELSE LET m == SeqMin(Tail(s)) IN IF s[1] < m THEN s[1] ELSE m

\* the sequences over S of length at most n
SeqsUpTo(S, n) == UNION {[1..m -> S] : m \in 0..n}

----------------------------------------------------------------------------
(* KernelPreprocessor *)

\* line 53 with the quotient rounded down instead of up
IxLowFloor(c, xi) == Trunc(xi - SeqMin(x[c]), strides[1])

\* lines 53-54 for the x axis
IxLow(c, xi) == Ceil(xi - SeqMin(x[c]), strides[1])
IxHigh(c, xi) == Trunc(xi - (SeqMin(x[c]) - kernel_size[1]), strides[1])
\* lines 55-56 for the y axis
IyLow(c, yi) == Ceil(yi - SeqMin(y[c]), strides[2])
IyHigh(c, yi) == Trunc(yi - (SeqMin(y[c]) - kernel_size[2]), strides[2])

\* the keys the two loops of lines 57-58 visit, in the order they visit them
KeyRange(ixl, ixh, iyl, iyh) ==
    LET nx == IF ixh >= ixl THEN ixh - ixl + 1 ELSE 0
        ny == IF iyh >= iyl THEN iyh - iyl + 1 ELSE 0
    IN  [j \in 1..(nx * ny) |-> <<ixl + ((j - 1) \div ny), iyl + ((j - 1) % ny)>>]

SeqRange(s) == {s[j] : j \in 1..Len(s)}

\* lines 52-62, one iteration of the loop over the samples: the sample is
\* appended to the list of every key of its ranges, a list being created
\* for a key the dict does not hold yet
KernelAssign(c) ==
    /\ pc[c] = "assign"
    /\ i[c] <= Len(x[c])
    /\ LET xi == x[c][i[c]]
           yi == y[c][i[c]]
           range == KeyRange(IxLow(c, xi), IxHigh(c, xi), IyLow(c, yi), IyHigh(c, yi))
           old == kernels[c]
           fresh == SelectSeq(range, LAMBDA key : key \notin DOMAIN old)
       IN  /\ kernels' = [kernels EXCEPT ![c] =
                  [key \in DOMAIN old \cup SeqRange(range) |->
                      IF key \in SeqRange(range)
                      THEN (IF key \in DOMAIN old THEN Append(old[key], <<xi, yi>>)
                            ELSE <<(<<xi, yi>>)>>)
                      ELSE old[key]]]
           /\ keys' = [keys EXCEPT ![c] = @ \o fresh]
    /\ i' = [i EXCEPT ![c] = @ + 1]
    /\ UNCHANGED <<kernel_size, strides, threshold, threshold_size, pc, x, y,
                   k, new_x, new_y, lvars, cvars>>

\* line 65, reached when the loop over the samples is over
KernelSetThresholdSize(c) ==
    /\ pc[c] = "assign"
    /\ i[c] > Len(x[c])
    /\ threshold_size' = <<Ceil(Len(x[c]) * threshold[1], threshold[2])>>
    /\ pc' = [pc EXCEPT ![c] = "combine"]
    /\ UNCHANGED <<kernel_size, strides, threshold, x, y, i, kernels, keys, k,
                   new_x, new_y, lvars, cvars>>

RECURSIVE SumOf(_, _)
\* lines 81-85: the sum of coordinate ax of the samples
SumOf(samples, ax) ==
    IF samples = <<>> THEN 0 ELSE samples[1][ax] + SumOf(Tail(samples), ax)

\* combine rejecting also a window of exactly threshold_size members
MeanCombineAbove(samples, ts) ==
    IF Len(samples) <= ts THEN <<>>
    ELSE <<(<<SumOf(samples, 1), Len(samples)>>), (<<SumOf(samples, 2), Len(samples)>>)>>

\* MeanKernelPreprocessor.combine with self.threshold_size = ts:
\* <<>> for None, else <<mean of x, mean of y>>, each <<sum, count>>
MeanCombine(samples, ts) ==
    IF Len(samples) < ts THEN <<>>
    ELSE <<(<<SumOf(samples, 1), Len(samples)>>), (<<SumOf(samples, 2), Len(samples)>>)>>

\* lines 66-72, one iteration of the loop over the keys: combine reads
\* self.threshold_size (line 79), and the AttributeError of an absent
\* attribute is not caught by the handler of line 69, which skips a None
\* result (TypeError)
KernelCombine(c) ==
    /\ pc[c] = "combine"
    /\ k[c] <= Len(keys[c])
    /\ IF threshold_size = <<>>
       THEN /\ pc' = [pc EXCEPT ![c] = "failed"]
            /\ UNCHANGED <<new_x, new_y, k>>
       ELSE /\ LET r == MeanCombine(kernels[c][keys[c][k[c]]], threshold_size[1])
               IN  IF r = <<>>
                   THEN UNCHANGED <<new_x, new_y>>
                   ELSE /\ new_x' = [new_x EXCEPT ![c] = Append(@, r[1])]
                        /\ new_y' = [new_y EXCEPT ![c] = Append(@, r[2])]
            /\ k' = [k EXCEPT ![c] = @ + 1]
            /\ UNCHANGED pc
    /\ UNCHANGED <<kernel_size, strides, threshold, threshold_size, x, y, i,
                   kernels, keys, lvars, cvars>>

\* lines 73-74, reached when the loop over the keys is over: del raises
\* AttributeError when the attribute is absent
KernelReturn(c) ==
    /\ pc[c] = "combine"
    /\ k[c] > Len(keys[c])
    /\ IF threshold_size = <<>>
       THEN pc' = [pc EXCEPT ![c] = "failed"]
       ELSE pc' = [pc EXCEPT ![c] = "done"]
    /\ threshold_size' = <<>>
    /\ UNCHANGED <<kernel_size, strides, threshold, x, y, i, kernels, keys, k,
                   new_x, new_y, lvars, cvars>>

KernelNext ==
    \E c \in Calls :
        \/ KernelAssign(c)
        \/ KernelSetThresholdSize(c)
        \/ KernelCombine(c)
        \/ KernelReturn(c)

----------------------------------------------------------------------------
(* SquaredLoss *)

\* rows of the design matrix: a bias column and one feature
Rows == {<<1, 1>>, <<1, 2>>}
\* weight vectors
Weights == {<<0, 0>>, <<0, 1>>, <<1, 1>>}
\* targets
Targets == {0, 1, 3}
\* contamination proportions, as fractions: valid ones, 1, and above 1
Contaminations == {<<0, 1>>, <<1, 5>>, <<1, 2>>, <<1, 1>>, <<3, 2>>, <<2, 1>>}

RECURSIVE Dot(_, _)
\* the dot product of two vectors of one length
Dot(u, v) == IF u = <<>> THEN 0 ELSE u[1] * v[1] + Dot(Tail(u), Tail(v))

\* line 21: ceil(X.shape[0] * (1 - self.contamination_proportion))
KeptSize(n, cp) == Ceil(n * (cp[2] - cp[1]), cp[2])

\* lines 21-23
LossResiduals ==
    /\ lpc = "start"
    /\ kept_size' = KeptSize(Len(X), contamination_proportion)
    /\ residuals' = [j \in 1..Len(X) |-> Dot(X[j], w) - yt[j]]
    /\ losses' = [j \in 1..Len(X) |-> residuals'[j] * residuals'[j]]
    /\ lpc' = "sort"
    /\ UNCHANGED <<contamination_proportion, X, w, yt, kept_indices, loss_out,
                   kvars, cvars>>

\* the permutations of 1..n as sequences
Perms(n) == {p \in [1..n -> 1..n] : \A a, b \in 1..n : a # b => p[a] # p[b]}

\* an argsort in descending order
ArgsortsDescending(v) ==
    {p \in Perms(Len(v)) : \A a, b \in 1..Len(v) : a < b => v[p[a]] >= v[p[b]]}

\* np.argsort(v) with the default kind, which is not stable: any permutation
\* of the indices along which v does not decrease
Argsorts(v) ==
    {p \in Perms(Len(v)) : \A a, b \in 1..Len(v) : a < b => v[p[a]] <= v[p[b]]}

\* a slice that stops one entry early
SliceToShort(s, n) == SubSeq(s, 1, IF n - 1 < Len(s) THEN n - 1 ELSE Len(s))

\* s[:n], the slice of Python: a negative n counts from the end
SliceTo(s, n) ==
    IF n >= 0
    THEN SubSeq(s, 1, IF n < Len(s) THEN n ELSE Len(s))
    ELSE SubSeq(s, 1, IF Len(s) + n > 0 THEN Len(s) + n ELSE 0)

\* line 24
LossArgsort ==
    /\ lpc = "sort"
    /\ \E p \in Argsorts(losses) : kept_indices' = SliceTo(p, kept_size)
    /\ lpc' = "return"
    /\ UNCHANGED <<contamination_proportion, X, w, yt, kept_size, residuals,
                   losses, loss_out, kvars, cvars>>

RECURSIVE SumAt(_, _)
\* sum(v[idx]): the sum of the entries of v at the indices idx
SumAt(v, idx) == IF idx = <<>> THEN 0 ELSE v[idx[1]] + SumAt(v, Tail(idx))

RECURSIVE ColDot(_, _, _, _)
\* entry col of M[idx].transpose().dot(r[idx])
ColDot(M, r, idx, col) ==
    IF idx = <<>> THEN 0
    ELSE M[idx[1]][col] * r[idx[1]] + ColDot(M, r, Tail(idx), col)

\* line 25 with kept_size # 0: the loss is lossNum / den, the gradient is
\* gradNum[col] / den
LossReturn ==
    /\ lpc = "return"
    /\ kept_size # 0
    /\ loss_out' = [lossNum |-> SumAt(losses, kept_indices),
                    gradNum |-> [col \in 1..Len(w) |->
                                    2 * ColDot(X, residuals, kept_indices, col)],
                    den |-> kept_size]
    /\ lpc' = "returned"
    /\ UNCHANGED <<contamination_proportion, X, w, yt, kept_size, residuals,
                   losses, kept_indices, kvars, cvars>>

\* line 25 with kept_size = 0: ZeroDivisionError
LossZeroDivision ==
    /\ lpc = "return"
    /\ kept_size = 0
    /\ lpc' = "failed"
    /\ UNCHANGED <<contamination_proportion, X, w, yt, kept_size, residuals,
                   losses, kept_indices, loss_out, kvars, cvars>>

LossNext ==
    \/ LossResiduals
    \/ LossArgsort
    \/ LossReturn
    \/ LossZeroDivision

----------------------------------------------------------------------------
(* ClusteringPreprocessor *)

\* the modes a preprocessor is constructed with
Modes == {"DBSCAN", "KMeans"}
\* the labels of the clustering: -1 for noise, else a cluster
Labels == {-1, 0, 1}

\* lines 96-98: the clustering labels each sample
ClusterFit ==
    /\ cpc = "start"
    /\ mode = "DBSCAN"
    /\ labels_' \in [1..Len(cx) -> Labels]
    /\ cpc' = "fitted"
    /\ UNCHANGED <<mode, cx, cy, index, c_out, kvars, lvars>>

\* the test of line 99 inverted
ClusteredIsNoise(label) == label = -1

\* the test of line 99
Clustered(label) == label # -1

RECURSIVE Where(_, _)
\* np.where: the positions from j on whose label passes the test, ascending
Where(lab, j) ==
    IF j > Len(lab) THEN <<>>
    ELSE IF Clustered(lab[j]) THEN <<j>> \o Where(lab, j + 1)
    ELSE Where(lab, j + 1)

RECURSIVE Delete(_, _, _)
\* np.delete(s, idx): s from position j on, without the positions of idx
Delete(s, idx, j) ==
    IF j > Len(s) THEN <<>>
    ELSE IF j \in SeqRange(idx) THEN Delete(s, idx, j + 1)
    ELSE <<s[j]>> \o Delete(s, idx, j + 1)

\* lines 99-102
ClusterSelect ==
    /\ cpc = "fitted"
    /\ index' = Where(labels_, 1)
    /\ c_out' = [kind |-> "arrays", x |-> Delete(cx, index', 1),
                 y |-> Delete(cy, index', 1)]
    /\ cpc' = "returned"
    /\ UNCHANGED <<mode, cx, cy, labels_, kvars, lvars>>

\* the end of __call__ when the test of line 96 fails: the call returns None
ClusterFallThrough ==
    /\ cpc = "start"
    /\ mode # "DBSCAN"
    /\ c_out' = [kind |-> "None", x |-> <<>>, y |-> <<>>]
    /\ cpc' = "returned"
    /\ UNCHANGED <<mode, cx, cy, labels_, index, kvars, lvars>>

ClusterNext ==
    \/ ClusterFit
    \/ ClusterSelect
    \/ ClusterFallThrough

----------------------------------------------------------------------------
(* Initial states and specifications *)

\* the sample sets of a call: x and y of one length
SampleSets ==
    {s \in SeqsUpTo(0..MaxCoordX, MaxSamples) \X SeqsUpTo(0..MaxCoordY, MaxSamples) :
        Len(s[1]) = Len(s[2])}

\* no call of KernelPreprocessor
KernelIdle ==
    /\ kernel_size = <<1, 1>> /\ strides = <<1, 1>> /\ threshold = <<0, 1>>
    /\ threshold_size = <<>>
    /\ pc = [c \in Calls |-> "idle"]
    /\ x = [c \in Calls |-> <<>>] /\ y = [c \in Calls |-> <<>>]
    /\ i = [c \in Calls |-> 1] /\ k = [c \in Calls |-> 1]
    /\ kernels = [c \in Calls |-> <<>>]
    /\ keys = [c \in Calls |-> <<>>]
    /\ new_x = [c \in Calls |-> <<>>] /\ new_y = [c \in Calls |-> <<>>]

\* no call of SquaredLoss
LossIdle ==
    /\ lpc = "idle" /\ contamination_proportion = <<0, 1>>
    /\ X = <<>> /\ w = <<>> /\ yt = <<>>
    /\ kept_size = 0 /\ residuals = <<>> /\ losses = <<>> /\ kept_indices = <<>>
    /\ loss_out = [lossNum |-> 0, gradNum |-> <<>>, den |-> 1]

\* no call of ClusteringPreprocessor
ClusterIdle ==
    /\ cpc = "idle" /\ mode = "DBSCAN" /\ cx = <<>> /\ cy = <<>>
    /\ labels_ = <<>> /\ index = <<>>
    /\ c_out = [kind |-> "None", x |-> <<>>, y |-> <<>>]

\* a constructed MeanKernelPreprocessor and the calls of `active` entered,
\* call c with the sample set sets[c]
KernelStart(active, sets) ==
    /\ threshold_size = <<>>
    /\ pc = [c \in Calls |-> IF c \in active THEN "assign" ELSE "idle"]
    /\ x = [c \in Calls |-> IF c \in active THEN sets[c][1] ELSE <<>>]
    /\ y = [c \in Calls |-> IF c \in active THEN sets[c][2] ELSE <<>>]
    /\ i = [c \in Calls |-> 1] /\ k = [c \in Calls |-> 1]
    /\ kernels = [c \in Calls |-> <<>>]
    /\ keys = [c \in Calls |-> <<>>]
    /\ new_x = [c \in Calls |-> <<>>] /\ new_y = [c \in Calls |-> <<>>]

\* one call of a MeanKernelPreprocessor
KernelInit ==
    /\ \E cfg \in KernelConfigs : kernel_size = cfg[1] /\ strides = cfg[2]
    /\ threshold \in Thresholds
    /\ \E s \in SampleSets : KernelStart({1}, [c \in Calls |-> s])
    /\ LossIdle /\ ClusterIdle

KernelSpec == KernelInit /\ [][KernelNext]_vars

\* one call of a SquaredLoss
LossInit ==
    /\ lpc = "start"
    /\ contamination_proportion \in Contaminations
    /\ \E n \in 1..MaxRows :
        /\ X \in [1..n -> Rows]
        /\ yt \in [1..n -> Targets]
    /\ w \in Weights
    /\ kept_size = 0 /\ residuals = <<>> /\ losses = <<>> /\ kept_indices = <<>>
    /\ loss_out = [lossNum |-> 0, gradNum |-> <<>>, den |-> 1]
    /\ KernelIdle /\ ClusterIdle

LossSpec == LossInit /\ [][LossNext]_vars

\* one call of a ClusteringPreprocessor
ClusterInit ==
    /\ cpc = "start"
    /\ mode \in Modes
    /\ \E s \in SampleSets : cx = s[1] /\ cy = s[2]
    /\ labels_ = <<>> /\ index = <<>>
    /\ c_out = [kind |-> "None", x |-> <<>>, y |-> <<>>]
    /\ KernelIdle /\ LossIdle

ClusterSpec == ClusterInit /\ [][ClusterNext]_vars

\* two calls of one MeanKernelPreprocessor with different sample sets, their
\* steps interleaved
ConcurrentInit ==
    /\ kernel_size = <<1, 1>>
    /\ strides = <<1, 1>>
    /\ threshold \in {<<1, 2>>, <<1, 1>>}
    /\ \E s1, s2 \in SampleSets :
        /\ s1 # s2
        /\ KernelStart(Calls, [c \in Calls |-> IF c = 1 THEN s1 ELSE s2])
    /\ LossIdle /\ ClusterIdle

ConcurrentSpec == ConcurrentInit /\ [][KernelNext]_vars

----------------------------------------------------------------------------
(* Properties of KernelPreprocessor, stated of call 1 *)

\* the samples of call c, as pairs
SamplesOf(c) == [j \in 1..Len(x[c]) |-> <<x[c][j], y[c][j]>>]

\* the number of entries of the sequence s equal to v
Count(s, v) == Cardinality({j \in 1..Len(s) : s[j] = v})

\* the member list of window key of call c, empty for a key the dict lacks
Members(c, key) == IF key \in DOMAIN kernels[c] THEN kernels[c][key] ELSE <<>>

\* window indices large enough for every window a sample of the model can fall in
WindowIndices == (-1..(MaxCoordX + 3)) \X (-1..(MaxCoordY + 3))

\* the assignment loop of call c is over
Assigned(c) == pc[c] = "assign" /\ i[c] > Len(x[c])

\* the least integer not below n * threshold
ThresholdSizeOf(n) ==
    CHOOSE t \in 0..(n + 1) :
        /\ t * threshold[2] >= n * threshold[1]
        /\ (t - 1) * threshold[2] < n * threshold[1]

\* what the call c returns when every window is gated by the threshold size
\* of its own sample count
OwnOutput(c) ==
    LET q == SelectSeq(keys[c],
                 LAMBDA key : Len(kernels[c][key]) >= ThresholdSizeOf(Len(x[c])))
    IN  [x |-> [j \in 1..Len(q) |-> <<SumOf(kernels[c][q[j]], 1), Len(kernels[c][q[j]])>>],
         y |-> [j \in 1..Len(q) |-> <<SumOf(kernels[c][q[j]], 2), Len(kernels[c][q[j]])>>]]

\* C1: with threshold 0 and kernel_size equal to strides, when the call has
\* returned every input sample is held by exactly one window, and the
\* output samples are the means of the windows.
C1_PartitionExactTiling ==
    (pc[1] = "done" /\ threshold[1] = 0 /\ kernel_size = strides) =>
        /\ \A j \in 1..Len(x[1]) :
              Cardinality({key \in DOMAIN kernels[1] :
                              Count(kernels[1][key], SamplesOf(1)[j]) > 0}) = 1
        /\ new_x[1] = OwnOutput(1).x
        /\ new_y[1] = OwnOutput(1).y

\* C8: when the assignment loop is over, a sample (xi, yi) is in the member
\* list of window (ix, iy) exactly when
\* xmin + ix*sx - kw <= xi <= xmin + ix*sx and ymin + iy*sy - kh <= yi <= ymin + iy*sy,
\* and it is there once for each input sample with these coordinates; no
\* window outside the index box holds anything.
C8_WindowMembership ==
    (Assigned(1) /\ Len(x[1]) > 0) =>
        LET xmin == SeqMin(x[1])
            ymin == SeqMin(y[1])
            Inside(key, v) ==
                /\ xmin + key[1] * strides[1] - kernel_size[1] <= v[1]
                /\ v[1] <= xmin + key[1] * strides[1]
                /\ ymin + key[2] * strides[2] - kernel_size[2] <= v[2]
                /\ v[2] <= ymin + key[2] * strides[2]
        IN  /\ DOMAIN kernels[1] \subseteq WindowIndices
            /\ \A key \in WindowIndices :
                  /\ \A v \in (0..MaxCoordX) \X (0..MaxCoordY) :
                        Count(Members(1, key), v) =
                            IF Inside(key, v) THEN Count(SamplesOf(1), v) ELSE 0
                  /\ key \in DOMAIN kernels[1] => /\ Len(kernels[1][key]) > 0
                                                  /\ Count(keys[1], key) = 1

\* C8, witness: the loop over two different samples is over, with overlapping
\* windows (stride below kernel size): a window holds both samples, another
\* one only one of them, and a window of the box is not populated.
C8_Witness ==
    /\ Assigned(1) /\ Len(x[1]) = 2 /\ SamplesOf(1)[1] # SamplesOf(1)[2]
    /\ strides[1] < kernel_size[1]
    /\ \E k1, k2 \in DOMAIN kernels[1] : Len(kernels[1][k1]) = 2 /\ Len(kernels[1][k2]) = 1
    /\ <<1, 1>> \notin DOMAIN kernels[1]

\* C6: a single call never fails, and when it has returned the output holds
\* exactly one sample (the mean) for each window whose member count is at
\* least threshold_size = ceil(n * threshold), and none for any other window.
C6_ThresholdGating ==
    /\ pc[1] # "failed"
    /\ pc[1] = "done" =>
        LET ts == ThresholdSizeOf(Len(x[1]))
            qualifying == {key \in DOMAIN kernels[1] : Len(kernels[1][key]) >= ts}
        IN  /\ Len(new_x[1]) = Cardinality(qualifying)
            /\ Len(new_y[1]) = Cardinality(qualifying)
            /\ new_x[1] = OwnOutput(1).x
            /\ new_y[1] = OwnOutput(1).y

\* C6, witness: a call has returned with threshold 1 over two samples; one
\* window holds both samples and emitted a sample, another window holds one
\* sample only and emitted none.
C6_Witness ==
    /\ pc[1] = "done" /\ threshold = <<1, 1>> /\ Len(x[1]) = 2
    /\ \E k1, k2 \in DOMAIN kernels[1] : Len(kernels[1][k1]) = 2 /\ Len(kernels[1][k2]) = 1
    /\ Len(new_x[1]) >= 1
    /\ Len(new_x[1]) < Cardinality(DOMAIN kernels[1])

\* C10: when two calls on one instance interleave, neither call fails, and a
\* call that has returned returns what it returns alone.
C10_InterleavedCallsSafe ==
    \A c \in Calls :
        /\ pc[c] # "failed"
        /\ pc[c] = "done" => new_x[c] = OwnOutput(c).x /\ new_y[c] = OwnOutput(c).y

----------------------------------------------------------------------------
(* Properties of SquaredLoss *)

\* the residual of sample j at the weights w, and its square
Residual(j) == Dot(X[j], w) - yt[j]
Squared(j) == Residual(j) * Residual(j)

RECURSIVE SetSum(_, _)
\* the sum of the function f over the set S of sample indices
SetSum(S, f) ==
    IF S = {} THEN 0
    ELSE LET j == CHOOSE m \in S : TRUE IN f[j] + SetSum(S \ {j}, f)

\* the squared residuals, and the products of column col of X with the residuals
SquaredAll == [j \in 1..Len(X) |-> Squared(j)]
ColumnTimesResidual(col) == [j \in 1..Len(X) |-> X[j][col] * Residual(j)]

\* the contamination proportion is in [0, 1)
ValidContamination ==
    /\ contamination_proportion[1] >= 0
    /\ contamination_proportion[1] < contamination_proportion[2]

\* the least integer not below n * (1 - contamination_proportion)
CeilKept(n) ==
    CHOOSE t \in 0..n :
        LET num == n * (contamination_proportion[2] - contamination_proportion[1])
        IN  /\ t * contamination_proportion[2] >= num
            /\ (t - 1) * contamination_proportion[2] < num

\* the indices kept, as a set
Kept == SeqRange(kept_indices)

\* C2: with a contamination proportion in [0, 1) the call does not fail, and
\* the returned loss and gradient are the sums over exactly
\* kept_size = ceil(n * (1 - contamination_proportion)) distinct samples,
\* divided by kept_size; every excluded sample has a squared residual not
\* below that of every kept sample; ceil(10 * (1 - 0.2)) is 8.
C2_TrimmedSelection ==
    /\ KeptSize(10, <<1, 5>>) = 8
    /\ ValidContamination =>
        /\ lpc # "failed"
        /\ lpc = "returned" =>
            /\ kept_size = CeilKept(Len(X))
            /\ Cardinality(Kept) = kept_size
            /\ Len(kept_indices) = kept_size
            /\ Kept \subseteq 1..Len(X)
            /\ loss_out.den = kept_size
            /\ loss_out.lossNum = SetSum(Kept, SquaredAll)
            /\ \A col \in 1..Len(w) :
                  loss_out.gradNum[col] =
                      2 * SetSum(Kept, ColumnTimesResidual(col))
            /\ \A e \in (1..Len(X)) \ Kept : \A j \in Kept : Squared(e) >= Squared(j)

\* C2, witness: a call with contamination 1/2 on three samples has
\* returned, and the one excluded sample is the first of the input, with
\* a squared residual above that of the two kept samples.
C2_Witness ==
    /\ lpc = "returned" /\ contamination_proportion = <<1, 2>> /\ Len(X) = 3
    /\ Kept = {2, 3}
    /\ Squared(1) > Squared(2) /\ Squared(1) > Squared(3)
    /\ loss_out.lossNum > 0

RECURSIVE SumTo(_, _)
\* f[1] + ... + f[n]
SumTo(n, f) == IF n = 0 THEN 0 ELSE SumTo(n - 1, f) + f[n]

\* C3: with contamination proportion 0, kept_size = n, no sample is
\* excluded, the returned loss is (1/n) * sum of r_j^2 and the returned
\* gradient is (2/n) * X^T r.
C3_OrdinaryLeastSquares ==
    (contamination_proportion[1] = 0 /\ lpc = "returned") =>
        LET n == Len(X) IN
        /\ kept_size = n
        /\ Kept = 1..n
        /\ loss_out.lossNum * n = SumTo(n, SquaredAll) * loss_out.den
        /\ \A col \in 1..Len(w) :
              loss_out.gradNum[col] * n =
                  2 * SumTo(n, ColumnTimesResidual(col)) * loss_out.den

\* C3, witness: a call with contamination 0 on three samples has returned a
\* positive loss and a nonzero gradient, the sort having reordered the samples.
C3_Witness ==
    /\ lpc = "returned" /\ contamination_proportion = <<0, 1>> /\ Len(X) = 3
    /\ kept_indices # <<1, 2, 3>>
    /\ loss_out.lossNum > 0
    /\ loss_out.gradNum[2] # 0

\* C7: a SquaredLoss with contamination_proportion >= 1 never returns a
\* (loss, gradient) pair.
C7_InvalidContaminationFails ==
    contamination_proportion[1] >= contamination_proportion[2] => lpc # "returned"

\* C9: with a contamination proportion in [0, 1), among samples of equal
\* squared residual the ones of smaller index are kept: no excluded sample
\* ties with a kept sample of larger index.
C9_StableTieBreak ==
    (ValidContamination /\ lpc \in {"return", "returned"}) =>
        \A e \in (1..Len(X)) \ Kept : \A j \in Kept :
            losses[e] = losses[j] => e > j

----------------------------------------------------------------------------
(* Properties of ClusteringPreprocessor *)

\* the positions of the samples labelled noise
Noise == {j \in 1..Len(labels_) : labels_[j] = -1}

\* the position of the n-th sample labelled noise
NthNoise(n) == CHOOSE j \in Noise : Cardinality({m \in Noise : m <= j}) = n

\* C4: in mode DBSCAN the returned arrays hold exactly the samples labelled
\* -1, once each, in their input order, x' and y' aligned.
C4_KeepsNoiseInOrder ==
    (mode = "DBSCAN" /\ cpc = "returned") =>
        /\ c_out.kind = "arrays"
        /\ Len(c_out.x) = Cardinality(Noise)
        /\ Len(c_out.y) = Cardinality(Noise)
        /\ \A n \in 1..Cardinality(Noise) :
              /\ c_out.x[n] = cx[NthNoise(n)]
              /\ c_out.y[n] = cy[NthNoise(n)]

\* C4, witness: a call in mode DBSCAN has returned; the first of two
\* different samples was labelled with a cluster and dropped, the second
\* was labelled noise and is the output.
C4_Witness ==
    /\ mode = "DBSCAN" /\ cpc = "returned"
    /\ Len(cx) = 2 /\ <<cx[1], cy[1]>> # <<cx[2], cy[2]>>
    /\ labels_ = <<0, -1>>
    /\ c_out.x = <<cx[2]>> /\ c_out.y = <<cy[2]>>

\* C5: a call of a ClusteringPreprocessor whose mode is not DBSCAN never
\* completes normally.
C5_UnsupportedModeFails ==
    mode # "DBSCAN" => cpc # "returned"

====
